---- MODULE Spec2Model ----
(***************************************************************************)
(* Model of the failover request engine of rqlite-js: the HttpRequest      *)
(* class (src/src/http-request/index.ts) with its host list, the active    *)
(* and leader host cursors, the retry classification and the recursive     *)
(* fetch() that follows redirects and retries failed requests.             *)
(*                                                                         *)
(* Strings are sequences of tokens, every token standing for the piece of  *)
(* text it spells ("http:", "//", "a", ":", "4001", "/", "db", ...), so    *)
(* that url.parse, cleanPath and the uri join are computed and not assumed. *)
(***************************************************************************)
EXTENDS Integers, Sequences, FiniteSets, TLC

VARIABLES
    hosts,                \* HttpRequest.hosts
    activeHostIndex,      \* HttpRequest.activeHostIndex
    leaderHostIndex,      \* HttpRequest.leaderHostIndex
    activeHostRoundRobin, \* HttpRequest.activeHostRoundRobin
    retryableHttpMethods, \* HttpRequest.retryableHttpMethods
    retryableStatusCodes, \* HttpRequest.retryableStatusCodes
    bundled,              \* TRUE for the bundled build of the client (the compiled
                          \* JavaScript), FALSE for the TypeScript source
    healthy,              \* the indexes of the hosts whose node answers every
                          \* request with success, where the nodes behave
                          \* steadily; empty where any answer may come
    fraction,             \* the fractional part of the two indexes: .active
                          \* (.leader) is TRUE when the number stored is
                          \* activeHostIndex + 1/2 (leaderHostIndex + 1/2); the
                          \* engine is only run on whole indexes
    pc,                   \* position of the logical fetch() call
    options,              \* the options object of the current fetch() frame
    url,                  \* the url handed to axios by the current attempt
    sent,                 \* the rest of the request handed to axios with it
    wrapper,              \* the method of the client the caller called
    response,             \* the rejection axios settled with, while the catch block is pending
    nextAttemptHostIndex, \* local of the catch block, kept across the backoff await
    waitTime,             \* local of the retry branch: the delay being awaited
    result,               \* what the call resolved or rejected with
    dispatches,           \* observation: axios calls made by this logical call
    nRedirects,           \* observation: 301/302 responses received by this call
    nFailures,            \* observation: other failures received by this call
    lastLearned,          \* observation: pool index named by the last followed useLeader
                          \* redirect since leaderHostIndex was last set directly
    applied,              \* the last direct application of a pure function of the
                          \* retry policy: its name, its arguments and its value
    other                 \* a second call running on the same client

vars == <<hosts, activeHostIndex, leaderHostIndex, activeHostRoundRobin,
          retryableHttpMethods, retryableStatusCodes, bundled, healthy, fraction, pc,
          options, url, sent, wrapper, response, nextAttemptHostIndex,
          waitTime, result, dispatches, nRedirects, nFailures, lastLearned,
          applied, other>>

poolVars == <<hosts, activeHostIndex, leaderHostIndex, activeHostRoundRobin,
              retryableHttpMethods, retryableStatusCodes, bundled, healthy, fraction>>

callVars == <<pc, options, url, sent, wrapper, response, nextAttemptHostIndex,
              waitTime, result, dispatches, nRedirects, nFailures, lastLearned>>

NotApplied == [fn |-> "none", args |-> << >>, value |-> 0]

(***************************************************************************)
(* Bounds                                                                  *)
(***************************************************************************)
MaxHosts == 3          \* pools of 1..MaxHosts hosts
MaxRetriesOpt == 2     \* per-call retries option drawn from 0..MaxRetriesOpt
MaxRedirectsOpt == 2   \* per-call maxRedirects option drawn from 0..MaxRedirectsOpt
IndexSlack == 1        \* setter arguments drawn from -IndexSlack..hostCount+IndexSlack
MaxFairHosts == 2      \* pools of 1..MaxFairHosts hosts under FairSpec
MaxRaceBudget == 1     \* retries and maxRedirects of the first of two concurrent
                       \* calls drawn from 0..MaxRaceBudget
MaxAttempt == 4        \* getWaitTimeExponential applied to attempts 0..MaxAttempt
MaxBase == 3           \* ... to bases 0..MaxBase and the default base
MaxPow == 3            \* ... to powers 1..MaxPow
MaxEntries == 2        \* setHosts applied to lists of 0..MaxEntries entries

\* the observation counters stop counting here, above what any call reaches
CounterCap == MaxRedirectsOpt + MaxRetriesOpt + 2
Count(c) == IF c < CounterCap THEN c + 1 ELSE c

\* what an observation counter shows after n events
Counted(n) == IF n < CounterCap THEN n ELSE CounterCap

(***************************************************************************)
(* Values                                                                  *)
(***************************************************************************)
Undefined == -1        \* an option that was not supplied (attemptHostIndex)
NoStatus == 0          \* response.status of an error without a response
NoCode == "none"       \* error.code of an error that carries none
NoLocation == << >>    \* a response without a location header
NoUrl == << >>         \* no attempt dispatched yet

HTTP_METHOD_GET == "GET"
HTTP_METHOD_POST == "POST"

RETRYABLE_ERROR_CODES ==
    {"EADDRINUSE", "EAI_AGAIN", "ECONNREFUSED", "ECONNRESET",
     "ENETUNREACH", "ENOTFOUND", "EPIPE", "ETIMEDOUT"}

RETRYABLE_STATUS_CODES == {408, 413, 429, 500, 502, 503, 504, 521, 522, 524}

RETRYABLE_HTTP_METHODS ==
    {"DELETE", "GET", "HEAD", "OPTIONS", "PATCH", "POST", "PUT"}

exponentailBackoffBase == 100
DefaultMaxRedirects == 10
PATH_QUERY == <<"/", "db", "/", "query">>
PATH_EXECUTE == <<"/", "db", "/", "execute">>
CONSISTENCY_LEVEL_NONE == "none"
CONSISTENCY_LEVEL_WEAK == "weak"
CONSISTENCY_LEVEL_STRONG == "strong"

HostNames == <<"a", "b", "c", "d", "e">>

\* the i-th configured host (0-based), as stored by setHosts: no trailing slash
HostUrl(i) == <<"http:", "//", HostNames[i + 1], ":", "4001">>

\* a node that is not in the configured list
ForeignUrl == <<"http:", "//", "z", ":", "4001">>

(***************************************************************************)
(* Pure functions                                                          *)
(***************************************************************************)
getTotalHosts == Len(hosts)

\* hosts[i] of a JavaScript array: undefined outside the array, which the
\* template string of fetch() spells "undefined"
HostAt(i) == IF i >= 0 /\ i < Len(hosts) THEN hosts[i + 1] ELSE <<"undefined">>

uriIsAbsolute(uri) ==
    /\ Len(uri) >= 2
    /\ uri[1] \in {"http:", "https:"}
    /\ uri[2] = "//"

cleanPath(path) ==
    IF Len(path) >= 1 /\ path[1] = "/" THEN Tail(path) ELSE path

\* index of the first "/" token of s at or after position from, Len(s)+1 if none
RECURSIVE FirstSlash(_, _)
FirstSlash(s, from) ==
    IF from > Len(s) THEN Len(s) + 1
    ELSE IF s[from] = "/" THEN from
    ELSE FirstSlash(s, from + 1)

\* url.parse of node: protocol, hostname and port are null ("") when absent,
\* the port is kept as written, and a slashed protocol with a hostname and no
\* path gets the path "/"
parseUrl(s) ==
    IF uriIsAbsolute(s)
    THEN LET cut == FirstSlash(s, 3)
             authority == SubSeq(s, 3, cut - 1)
             rest == SubSeq(s, cut, Len(s))
             hostname == IF Len(authority) >= 1 THEN authority[1] ELSE ""
         IN [protocol |-> s[1],
             hostname |-> hostname,
             port |-> IF Len(authority) >= 3 /\ authority[2] = ":"
                      THEN authority[3] ELSE "",
             path |-> IF rest = << >> /\ hostname # "" THEN <<"/">> ELSE rest]
    ELSE [protocol |-> "", hostname |-> "", port |-> "", path |-> s]

\* Array.prototype.findIndex over hosts, 0-based, -1 when nothing matches
RECURSIVE findIndexFrom(_, _)
findIndexFrom(host, i) ==
    IF i >= Len(hosts) THEN -1
    ELSE LET parsedHostToFind == parseUrl(host)
             parsedHost == parseUrl(hosts[i + 1])
         IN IF /\ parsedHostToFind.hostname = parsedHost.hostname
               /\ parsedHostToFind.protocol = parsedHost.protocol
               /\ parsedHostToFind.port = parsedHost.port
               /\ parsedHostToFind.path = parsedHost.path
            THEN i
            ELSE findIndexFrom(host, i + 1)

findHostIndex(host) == findIndexFrom(host, 0)

getActiveHost(useLeader) ==
    HostAt(IF useLeader THEN leaderHostIndex ELSE activeHostIndex)

\* the value setActiveHostIndex(i) stores
ClampActive(i) ==
    IF i < 0 THEN 0
    ELSE IF i >= getTotalHosts THEN getTotalHosts - 1
    ELSE i

\* the value setLeaderHostIndex(i) stores
ClampLeader(i) ==
    IF i < 0 THEN 0
    ELSE IF i > getTotalHosts THEN getTotalHosts - 1
    ELSE i

\* variant: the wrap tests the index itself, not the index after it
getNextActiveHostIndex_PastEnd(i) ==
    IF getTotalHosts = i THEN 0 ELSE i + 1

getNextActiveHostIndex(i) ==
    IF getTotalHosts = i + 1 THEN 0 ELSE i + 1

\* variant: * written for **
Pow_Multiply(b, e) == b * e

RECURSIVE Pow(_, _)
Pow(b, e) == IF e = 0 THEN 1 ELSE b * Pow(b, e - 1)

\* variant: without the special case of attempt 0
getWaitTimeExponential_NoZeroCase(attempt, base, pow) == Pow(pow, attempt) * base

\* variant: the wait stops growing after two doublings
getWaitTimeExponential_Capped(attempt, base, pow) ==
    IF attempt = 0 THEN 0
    ELSE IF attempt > 2 THEN Pow(pow, 2) * base
    ELSE Pow(pow, attempt) * base

getWaitTimeExponential(attempt, base, pow) ==
    IF attempt = 0 THEN 0 ELSE Pow(pow, attempt) * base

\* variant: the http method is not looked at
requestIsRetryable_AnyMethod(statusCode, errorCode, httpMethod) ==
    IF statusCode # NoStatus /\ statusCode \in retryableStatusCodes THEN TRUE
    ELSE IF errorCode # NoCode /\ errorCode \in RETRYABLE_ERROR_CODES THEN TRUE
    ELSE FALSE

requestIsRetryable(statusCode, errorCode, httpMethod) ==
    IF httpMethod \notin retryableHttpMethods THEN FALSE
    ELSE IF statusCode # NoStatus /\ statusCode \in retryableStatusCodes THEN TRUE
    ELSE IF errorCode # NoCode /\ errorCode \in RETRYABLE_ERROR_CODES THEN TRUE
    ELSE FALSE

isFinite(x) == x # Undefined

\* the index whose successor the catch block passes to the next attempt
AttemptBase(opts) ==
    IF isFinite(opts.attemptHostIndex) THEN opts.attemptHostIndex
    ELSE activeHostIndex

\* variant: the successor of the active host, whatever host was just tried
NextAttemptIndex_FromActive(opts) ==
    IF activeHostIndex + 1 = getTotalHosts THEN 0 ELSE activeHostIndex + 1

\* nextAttemptHostIndex as computed by the catch block
NextAttemptIndex(opts) ==
    IF AttemptBase(opts) + 1 = getTotalHosts THEN 0 ELSE AttemptBase(opts) + 1

\* variant: useLeader is not passed on to getActiveHost
AttemptUrl_ActiveOnly(opts) ==
    LET activeHost == IF isFinite(opts.attemptHostIndex)
                      THEN HostAt(opts.attemptHostIndex)
                      ELSE getActiveHost(FALSE)
    IN IF uriIsAbsolute(opts.uri) THEN opts.uri
       ELSE activeHost \o <<"/">> \o cleanPath(opts.uri)

\* the url of an attempt: an absolute uri verbatim, else host "/" path
AttemptUrl(opts) ==
    LET activeHost == IF isFinite(opts.attemptHostIndex)
                      THEN HostAt(opts.attemptHostIndex)
                      ELSE getActiveHost(opts.useLeader)
    IN IF uriIsAbsolute(opts.uri) THEN opts.uri
       ELSE activeHost \o <<"/">> \o cleanPath(opts.uri)

(***************************************************************************)
(* Inputs                                                                  *)
(***************************************************************************)
HostIndexes == 0 .. (getTotalHosts - 1)

\* what a location header may hold: nothing, a configured host alone, a
\* configured host followed by the request path, or a node outside the list
Locations ==
    {NoLocation}
    \cup {HostUrl(i) : i \in HostIndexes}
    \cup {HostUrl(i) \o PATH_QUERY : i \in HostIndexes}
    \cup {ForeignUrl \o PATH_QUERY}

\* the rejections of axios: a redirect (maxRedirects: 0 turns 3xx into an
\* error), an error status, or an error without a response
Failures ==
    [status : {301, 302}, code : {NoCode}, location : Locations]
    \cup [status : {503, 404}, code : {NoCode}, location : {NoLocation}]
    \cup [status : {NoStatus}, code : {"ECONNRESET"}, location : {NoLocation}]

NoResponse == [status |-> NoStatus, code |-> NoCode, location |-> NoLocation]
Success == [status |-> 200, code |-> NoCode, location |-> NoLocation]

IndexArgs == (0 - IndexSlack) .. (getTotalHosts + IndexSlack)

NoBody == "none"       \* options.body when the caller gave none
SqlBody == "sql"       \* the statements a POST carries

CONTENT_TYPE_APPLICATION_JSON == "application/json;charset=utf-8"

\* a header of the caller
CallerHeader == <<"Authorization", "Bearer t">>

\* headers are sets of <<name, value>> pairs
createDefaultHeaders(headers) ==
    IF \E h \in headers : h[1] = "Accept" THEN headers
    ELSE headers \cup {<<"Accept", CONTENT_TYPE_APPLICATION_JSON>>}

BodyOf(method) == IF method = HTTP_METHOD_POST THEN SqlBody ELSE NoBody
HeadersOf(method) == IF method = HTTP_METHOD_POST THEN {CallerHeader} ELSE {}

\* JavaScript values handed over as SQL: a string, a number, an array and
\* the object of a template tag, {sql, values}
JsString(s) == [t |-> "string", v |-> s]
JsNumber(n) == [t |-> "number", v |-> n]
JsArray(a) == [t |-> "array", v |-> a]
SqlTag(sql, values) == [t |-> "object", v |-> <<JsString(sql), JsArray(values)>>]
JsUndefined == [t |-> "undefined", v |-> ""]

\* options.query when the caller gave none; a level that is not given is
\* left out of the object by createQuery
NoLevel == "undefined"
NoQuery == [level |-> NoLevel, q |-> JsUndefined]

NoOptions ==
    [uri |-> << >>, httpMethod |-> HTTP_METHOD_GET, useLeader |-> FALSE,
     retries |-> Undefined, maxRedirects |-> Undefined, attempt |-> 0,
     retryAttempt |-> 0, redirectAttempt |-> 0, attemptHostIndex |-> Undefined,
     body |-> NoBody, headers |-> {}, query |-> NoQuery]

\* the configuration object of the axios call, the url apart
AxiosConfig(opts) ==
    [method |-> opts.httpMethod, data |-> opts.body,
     headers |-> createDefaultHeaders(opts.headers), maxRedirects |-> 0,
     params |-> opts.query]

NotSent ==
    [method |-> "none", data |-> NoBody, headers |-> {}, maxRedirects |-> 0,
     params |-> NoQuery]

\* no second call
NoCall ==
    [pc |-> "idle", useLeader |-> FALSE, wrapper |-> "none",
     response |-> NoResponse]

\* what fetch() settles with: {status, body}, or the error it throws; a
\* rethrown transport error carries the rejection it was caught with
NoResult ==
    [kind |-> "none", status |-> NoStatus, body |-> 0, error |-> "none",
     cause |-> NoResponse]
\* variant: the body returned is the one of the first attempt
Resolved_FirstAttempt(st, b) ==
    [kind |-> "resolved", status |-> st, body |-> 1, error |-> "none",
     cause |-> NoResponse]

Resolved(st, b) ==
    [kind |-> "resolved", status |-> st, body |-> b, error |-> "none",
     cause |-> NoResponse]
Rejected(err, r) ==
    [kind |-> "rejected", status |-> NoStatus, body |-> 0, error |-> err,
     cause |-> r]

\* variant: the default budget is two retries per host
Retries_TwicePerHost(opts) ==
    IF opts.retries = Undefined THEN getTotalHosts * 2 ELSE opts.retries

\* defaults of the destructuring at the head of fetch()
Retries(opts) ==
    IF opts.retries = Undefined THEN getTotalHosts * 3 ELSE opts.retries

MaxRedirects(opts) ==
    IF opts.maxRedirects = Undefined THEN DefaultMaxRedirects ELSE opts.maxRedirects

\* observation: the pool index of the host a url was sent to, -1 if none
RECURSIVE HostIndexOfUrlFrom(_, _)
HostIndexOfUrlFrom(u, i) ==
    IF i >= Len(hosts) THEN -1
    ELSE IF Len(u) >= Len(hosts[i + 1])
            /\ SubSeq(u, 1, Len(hosts[i + 1])) = hosts[i + 1]
         THEN i
         ELSE HostIndexOfUrlFrom(u, i + 1)

HostIndexOfUrl(u) == HostIndexOfUrlFrom(u, 0)

(***************************************************************************)
(* Initial state: a constructed client, no call in progress                *)
(***************************************************************************)
Constructed ==
    /\ \E n \in 1 .. MaxHosts : hosts = [i \in 1 .. n |-> HostUrl(i - 1)]
    /\ activeHostIndex = 0
    /\ leaderHostIndex = 0
    /\ \E custom \in BOOLEAN :
         /\ activeHostRoundRobin = ~custom
         /\ retryableHttpMethods =
                IF custom THEN RETRYABLE_HTTP_METHODS \ {HTTP_METHOD_POST}
                ELSE RETRYABLE_HTTP_METHODS
         /\ retryableStatusCodes =
                IF custom THEN RETRYABLE_STATUS_CODES \cup {301, 302}
                ELSE RETRYABLE_STATUS_CODES
    /\ bundled \in BOOLEAN
    /\ fraction = [active |-> FALSE, leader |-> FALSE]
    /\ applied = NotApplied
    /\ other = NoCall
    /\ wrapper = "none"
    /\ sent = NotSent
    /\ pc = "idle"
    /\ options = NoOptions
    /\ url = NoUrl
    /\ response = NoResponse
    /\ nextAttemptHostIndex = Undefined
    /\ waitTime = Undefined
    /\ result = NoResult
    /\ dispatches = 0
    /\ nRedirects = 0
    /\ nFailures = 0
    /\ lastLearned = -1

\* a constructed client whose nodes may answer anything
Init == Constructed /\ healthy = {}

\* a constructed client of at most MaxFairHosts hosts
FairInit == Init /\ Len(hosts) <= MaxFairHosts

(***************************************************************************)
(* HostPool operations                                                     *)
(***************************************************************************)
setActiveHostIndex(i) ==
    /\ activeHostIndex' = ClampActive(i)
    /\ fraction' = [fraction EXCEPT !.active = FALSE]
    /\ UNCHANGED <<hosts, leaderHostIndex, activeHostRoundRobin,
                   retryableHttpMethods, retryableStatusCodes, bundled, healthy>>
    /\ UNCHANGED <<callVars, applied, other>>

setLeaderHostIndex(i) ==
    /\ leaderHostIndex' = ClampLeader(i)
    /\ fraction' = [fraction EXCEPT !.leader = FALSE]
    /\ lastLearned' = -1
    /\ UNCHANGED <<hosts, activeHostIndex, activeHostRoundRobin,
                   retryableHttpMethods, retryableStatusCodes, bundled, healthy>>
    /\ UNCHANGED <<pc, options, url, sent, wrapper, response,
                   nextAttemptHostIndex, waitTime, result, dispatches,
                   nRedirects, nFailures, applied, other>>

\* variant: the step is taken whether round robin is enabled or not
NextActiveHostIndex_IgnoreFlag ==
    IF getTotalHosts <= 1 THEN activeHostIndex
    ELSE ClampActive(getNextActiveHostIndex(activeHostIndex))

\* what setNextActiveHostIndex leaves in activeHostIndex
NextActiveHostIndex ==
    IF ~activeHostRoundRobin THEN activeHostIndex
    ELSE IF getTotalHosts <= 1 THEN activeHostIndex
    ELSE ClampActive(getNextActiveHostIndex(activeHostIndex))

setNextActiveHostIndex ==
    /\ activeHostIndex' = NextActiveHostIndex
    /\ UNCHANGED <<hosts, leaderHostIndex, activeHostRoundRobin,
                   retryableHttpMethods, retryableStatusCodes, bundled, healthy,
                   fraction>>
    /\ UNCHANGED <<callVars, applied, other>>

(***************************************************************************)
(* fetch(): from its entry to the axios call                               *)
(***************************************************************************)
Fetch(opts) ==
    /\ options' = opts
    /\ IF opts.uri = << >>
       THEN /\ pc' = "failed"
            /\ result' = Rejected("UriRequired", NoResponse)
            /\ UNCHANGED <<url, sent, dispatches>>
       ELSE /\ pc' = "inflight"
            /\ url' = AttemptUrl(opts)
            /\ sent' = AxiosConfig(opts)
            /\ dispatches' = Count(dispatches)
            /\ UNCHANGED result

\* a top-level call of fetch() with a relative path and fresh counters; a
\* POST carries a body and a header of the caller, a GET neither
StartCall(method, leader, r, m) ==
    /\ pc = "idle"
    /\ wrapper' = "fetch"
    /\ Fetch([NoOptions EXCEPT !.uri = PATH_QUERY, !.httpMethod = method,
                               !.useLeader = leader, !.retries = r,
                               !.maxRedirects = m,
                               !.body = BodyOf(method),
                               !.headers = HeadersOf(method)])
    /\ UNCHANGED <<response, nextAttemptHostIndex, waitTime, nRedirects,
                   nFailures, lastLearned>>
    /\ UNCHANGED <<poolVars, applied, other>>

\* axios resolves: fetch() returns the status and the body
Resolve ==
    /\ pc = "inflight"
    /\ pc' = "success"
    /\ result' = Resolved(Success.status, dispatches)
    /\ UNCHANGED <<options, url, sent, wrapper, response, nextAttemptHostIndex,
                   waitTime, dispatches, nRedirects, nFailures, lastLearned>>
    /\ UNCHANGED <<poolVars, applied, other>>

\* variant: only 301 is taken for a redirect
IsRedirect_301Only(r) == r.status = 301

\* "First check if this is a redirect error"
IsRedirect(r) == r.status = 301 \/ r.status = 302

\* variant: the redirect budget is never found used up
RedirectsExhausted_Never(opts) == FALSE

\* "We maxed out on redirect attempts"
RedirectsExhausted(opts) == opts.redirectAttempt >= MaxRedirects(opts)

\* what the throw statement of the max redirects check raises: the source
\* constructs the error with new; the bundled build calls the class without
\* new, which itself throws a TypeError
MaxRedirectsThrown ==
    IF bundled THEN Rejected("TypeError", NoResponse)
    ELSE Rejected("MaxRedirects", NoResponse)

\* variant: the budget test lets one retry too many through
MayRetry_Inclusive(opts, retryable) ==
    retryable /\ opts.retryAttempt <= Retries(opts)

\* variant: any failure is retried while the budget lasts
MayRetry_AnyFailure(opts, retryable) == opts.retryAttempt < Retries(opts)

\* the guard of the retry branch
MayRetry(opts, retryable) == retryable /\ opts.retryAttempt < Retries(opts)

\* variant: the leader is remembered for requests that did not ask for it
NewLeaderHostIndex_AnyRequest(opts, location) ==
    IF findHostIndex(location) > -1 THEN findHostIndex(location) ELSE -1

\* variant: the "not found" result is handed to setLeaderHostIndex, which
\* clamps it to 0
NewLeaderHostIndex_Unchecked(opts, location) ==
    IF opts.useLeader
    THEN (IF findHostIndex(location) > -1 THEN findHostIndex(location) ELSE 0)
    ELSE -1

\* variant: the index is counted from 1
NewLeaderHostIndex_OneBased(opts, location) ==
    IF opts.useLeader /\ findHostIndex(location) > -1
    THEN findHostIndex(location) + 1
    ELSE -1

\* the index the redirect branch hands to setLeaderHostIndex, -1 for none
NewLeaderHostIndex(opts, location) ==
    IF opts.useLeader /\ findHostIndex(location) > -1
    THEN findHostIndex(location)
    ELSE -1

\* variant: following a redirect starts the retry budget afresh
RedirectOptions_ResetRetry(opts, location, next) ==
    [opts EXCEPT !.uri = location,
                 !.attempt = @ + 1,
                 !.retryAttempt = 0,
                 !.redirectAttempt = @ + 1,
                 !.attemptHostIndex = next]

\* variant: the redirect is followed the way a browser follows it, by a GET
\* without a body
RedirectOptions_Downgrade(opts, location, next) ==
    [opts EXCEPT !.uri = location,
                 !.attempt = @ + 1,
                 !.redirectAttempt = @ + 1,
                 !.attemptHostIndex = next,
                 !.httpMethod = HTTP_METHOD_GET,
                 !.body = NoBody]

\* variant: without a location the request is repeated on the next host
RedirectOptions_KeepUri(opts, location, next) ==
    [opts EXCEPT !.uri = IF location = NoLocation THEN @ ELSE location,
                 !.attempt = @ + 1,
                 !.redirectAttempt = @ + 1,
                 !.attemptHostIndex = next]

\* the options of the recursive call of the redirect branch
RedirectOptions(opts, location, next) ==
    [opts EXCEPT !.uri = location,
                 !.attempt = @ + 1,
                 !.redirectAttempt = @ + 1,
                 !.attemptHostIndex = next]

\* the options of the recursive call of the retry branch
RetryOptions(opts, next) ==
    [opts EXCEPT !.attempt = @ + 1,
                 !.retryAttempt = @ + 1,
                 !.attemptHostIndex = next]

\* axios rejects with r; the catch block of fetch() runs next
Settle(r) ==
    /\ pc = "inflight"
    /\ pc' = "caught"
    /\ response' = r
    /\ nRedirects' = IF r.status \in {301, 302} THEN Count(nRedirects) ELSE nRedirects
    /\ nFailures' = IF r.status \in {301, 302} THEN nFailures ELSE Count(nFailures)
    /\ lastLearned' =
           IF /\ r.status \in {301, 302}
              /\ options.useLeader
              /\ options.redirectAttempt < MaxRedirects(options)
              /\ r.location # NoLocation
              /\ findHostIndex(r.location) > -1
           THEN findHostIndex(r.location)
           ELSE lastLearned
    /\ UNCHANGED <<options, url, sent, wrapper, nextAttemptHostIndex, waitTime,
                   result, dispatches>>
    /\ UNCHANGED <<poolVars, applied, other>>

\* the catch block of fetch(), up to the next await or throw
Catch ==
    /\ pc = "caught"
    /\ response' = NoResponse
    /\ UNCHANGED <<nRedirects, nFailures, lastLearned, hosts,
                   activeHostIndex, activeHostRoundRobin, retryableHttpMethods,
                   retryableStatusCodes, bundled, healthy, fraction, wrapper, applied,
                   other>>
    /\ LET retryable == requestIsRetryable(response.status, response.code,
                                           options.httpMethod)
           next == NextAttemptIndex(options)
           location == response.location
       IN IF IsRedirect(response)
          THEN IF RedirectsExhausted(options)
               THEN /\ pc' = "failed"
                    /\ result' = MaxRedirectsThrown
                    /\ UNCHANGED <<options, url, sent, dispatches, leaderHostIndex,
                                   nextAttemptHostIndex, waitTime>>
               ELSE IF options.useLeader /\ location = NoLocation
               THEN \* url.parse(undefined) throws a TypeError
                    /\ pc' = "failed"
                    /\ result' = Rejected("TypeError", NoResponse)
                    /\ UNCHANGED <<options, url, sent, dispatches, leaderHostIndex,
                                   nextAttemptHostIndex, waitTime>>
               ELSE /\ leaderHostIndex' =
                           IF NewLeaderHostIndex(options, location) > -1
                           THEN ClampLeader(NewLeaderHostIndex(options, location))
                           ELSE leaderHostIndex
                    /\ Fetch(RedirectOptions(options, location, next))
                    /\ UNCHANGED <<nextAttemptHostIndex, waitTime>>
          ELSE IF MayRetry(options, retryable)
          THEN /\ pc' = "waiting"
               /\ waitTime' = getWaitTimeExponential(options.retryAttempt,
                                                     exponentailBackoffBase, 2)
               /\ nextAttemptHostIndex' = next
               /\ UNCHANGED <<options, url, sent, dispatches, result,
                              leaderHostIndex>>
          ELSE /\ pc' = "failed"
               /\ result' = Rejected("transport", response)
               /\ UNCHANGED <<options, url, sent, dispatches, leaderHostIndex,
                              nextAttemptHostIndex, waitTime>>

\* variant: the promise of the backoff wait is never resolved
BackoffElapsed_Unresolved ==
    /\ pc = "waiting"
    /\ UNCHANGED vars

\* the backoff timer fires: the retry branch calls fetch() again
BackoffElapsed ==
    /\ pc = "waiting"
    /\ Fetch(RetryOptions(options, nextAttemptHostIndex))
    /\ nextAttemptHostIndex' = Undefined
    /\ waitTime' = Undefined
    /\ UNCHANGED <<wrapper, response, nRedirects, nFailures, lastLearned>>
    /\ UNCHANGED <<poolVars, applied, other>>

\* the caller has taken the outcome; the client is ready for the next call
Finish ==
    /\ pc \in {"success", "failed", "returned"}
    /\ wrapper = "query" => pc # "success"
    /\ pc' = "idle"
    /\ wrapper' = "none"
    /\ options' = NoOptions
    /\ url' = NoUrl
    /\ sent' = NotSent
    /\ result' = NoResult
    /\ dispatches' = 0
    /\ nRedirects' = 0
    /\ nFailures' = 0
    /\ UNCHANGED <<response, nextAttemptHostIndex, waitTime, lastLearned>>
    /\ UNCHANGED <<poolVars, applied, other>>

Respond == Resolve \/ \E r \in Failures : Settle(r)

Call ==
    \E method \in {HTTP_METHOD_GET, HTTP_METHOD_POST}, leader \in BOOLEAN,
       r \in 0 .. MaxRetriesOpt, m \in 0 .. MaxRedirectsOpt :
        StartCall(method, leader, r, m)

\* a top-level call that leaves the retry budget to its default
DefaultCall ==
    \E method \in {HTTP_METHOD_GET, HTTP_METHOD_POST}, leader \in BOOLEAN,
       m \in 0 .. MaxRedirectsOpt :
        StartCall(method, leader, Undefined, m)

EngineNext ==
    \/ Call
    \/ Resolve
    \/ \E r \in Failures : Settle(r)
    \/ Catch
    \/ BackoffElapsed
    \/ Finish

\* a sequential caller: the pool methods are called between logical calls
Next ==
    \/ EngineNext
    \/ \E i \in IndexArgs : pc = "idle" /\ setActiveHostIndex(i)
    \/ \E i \in IndexArgs : pc = "idle" /\ setLeaderHostIndex(i)
    \/ pc = "idle" /\ setNextActiveHostIndex

\* every operation of the client, called in any order, one after the other
Spec == Init /\ [][Next]_vars

\* the engine alone: no direct call of the index setters
EngineSpec == Init /\ [][EngineNext]_vars

\* the engine alone, called with explicit and with default retry budgets
BudgetNext ==
    \/ Call
    \/ DefaultCall
    \/ Resolve
    \/ \E r \in Failures : Settle(r)
    \/ Catch
    \/ BackoffElapsed
    \/ Finish

BudgetSpec == Init /\ [][BudgetNext]_vars

(***************************************************************************)
(* DataApiClient: query and execute, which call fetch() through            *)
(* ApiClient.get and ApiClient.post; these pass the path, the method,      *)
(* useLeader, the body and (in the source build) the headers, and leave    *)
(* the budgets to their defaults                                           *)
(***************************************************************************)
WrapperOptions(path, method, leader, params, body) ==
    [NoOptions EXCEPT !.uri = path, !.httpMethod = method,
                      !.useLeader = leader,
                      !.query = params,
                      !.body = body,
                      !.headers = IF bundled THEN {} ELSE HeadersOf(method)]

\* what normalizeOneSqlQuery and normalizeManySqlQueries give when they throw
NormalizeError == [t |-> "error", v |-> ""]

isSqlTemplateTag(obj) == obj.t = "object"

isSqlQueryArrayOrObjectFormat(obj) ==
    /\ obj.t = "array"
    /\ Len(obj.v) >= 1
    /\ obj.v[1].t = "string"

normalizeOneSqlQuery(obj) ==
    IF obj.t = "array" /\ ~isSqlQueryArrayOrObjectFormat(obj) THEN NormalizeError
    ELSE IF obj.t = "string" THEN JsArray(<<obj>>)
    ELSE IF isSqlTemplateTag(obj) THEN JsArray(<<obj.v[1]>> \o obj.v[2].v)
    ELSE obj

canBeParsedAsOneSqlQuery(el) ==
    \/ el.t = "string"
    \/ isSqlTemplateTag(el)
    \/ isSqlQueryArrayOrObjectFormat(el)

normalizeManySqlQueries(obj) ==
    IF obj.t = "array"
    THEN IF \A i \in 1 .. Len(obj.v) : canBeParsedAsOneSqlQuery(obj.v[i])
         THEN JsArray([i \in 1 .. Len(obj.v) |-> normalizeOneSqlQuery(obj.v[i])])
         ELSE IF normalizeOneSqlQuery(obj) = NormalizeError THEN NormalizeError
         ELSE JsArray(<<normalizeOneSqlQuery(obj)>>)
    ELSE IF normalizeOneSqlQuery(obj) = NormalizeError THEN NormalizeError
    ELSE JsArray(<<normalizeOneSqlQuery(obj)>>)

\* the body ApiClient.post hands to fetch(): the source normalizes the
\* statements, the bundled build wraps what is not an array into one
PostBody(sql) ==
    IF bundled THEN (IF sql.t = "array" THEN sql ELSE JsArray(<<sql>>))
    ELSE normalizeManySqlQueries(sql)

\* query: { ...createQuery(options), q: sql } of ApiClient.get and
\* createQuery(options) of ApiClient.post
createQuery(level, q) == [level |-> level, q |-> q]

\* variant: useLeader is passed on as the caller gave it
QueryUseLeader_AsGiven(level, leader) == leader

\* "Weak and strong consistency will be redirect to the master anyway so skip
\* the redirect HTTP response and got right to the master"
QueryUseLeader(level, leader) ==
    IF level # CONSISTENCY_LEVEL_NONE THEN TRUE ELSE leader

\* a wrapper that throws before it calls fetch()
ThrowsBeforeFetch(err) ==
    /\ pc' = "failed"
    /\ result' = Rejected(err, NoResponse)
    /\ UNCHANGED <<options, url, sent, dispatches>>

\* query(sql, {level, useLeader}): the source sends one statement without
\* parameters by GET and anything else by POST; the bundled build sends
\* what is not an array by GET and an array by POST. The dialect option,
\* which chooses between the sql and the text of a template tag, is left at
\* its default.
query(sql, level, leader) ==
    /\ pc = "idle"
    /\ wrapper' = "query"
    /\ LET useLeader == QueryUseLeader(level, leader)
           queries == normalizeManySqlQueries(sql)
       IN IF bundled
          THEN IF sql.t = "array"
               THEN Fetch(WrapperOptions(PATH_QUERY, HTTP_METHOD_POST, useLeader,
                                         createQuery(level, JsUndefined),
                                         PostBody(sql)))
               ELSE Fetch(WrapperOptions(PATH_QUERY, HTTP_METHOD_GET, useLeader,
                                         createQuery(level, sql), NoBody))
          ELSE IF queries = NormalizeError
          THEN ThrowsBeforeFetch("NormalizeError")
          ELSE IF Len(queries.v) = 1 /\ Len(queries.v[1].v) = 1
          THEN Fetch(WrapperOptions(PATH_QUERY, HTTP_METHOD_GET, useLeader,
                                    createQuery(level, queries.v[1].v[1]),
                                    NoBody))
          ELSE Fetch(WrapperOptions(PATH_QUERY, HTTP_METHOD_POST, useLeader,
                                    createQuery(level, JsUndefined),
                                    PostBody(queries)))
    /\ UNCHANGED <<response, nextAttemptHostIndex, waitTime, nRedirects,
                   nFailures, lastLearned>>
    /\ UNCHANGED <<poolVars, applied, other>>

\* execute(sql, {useLeader})
execute(sql, leader) ==
    /\ pc = "idle"
    /\ wrapper' = "execute"
    /\ IF PostBody(sql) = NormalizeError
       THEN ThrowsBeforeFetch("NormalizeError")
       ELSE Fetch(WrapperOptions(PATH_EXECUTE, HTTP_METHOD_POST, leader,
                                 createQuery(NoLevel, JsUndefined),
                                 PostBody(sql)))
    /\ UNCHANGED <<response, nextAttemptHostIndex, waitTime, nRedirects,
                   nFailures, lastLearned>>
    /\ UNCHANGED <<poolVars, applied, other>>

\* one statement as a string, and a list of two
PlainSqlInputs ==
    { JsString("SELECT 1"),
      JsArray(<<JsString("SELECT 1"), JsString("SELECT 2")>>) }

\* SQL as a caller may hand it over: a string, a template tag without and
\* with a value, a statement with a parameter, lists of one and of two
\* statements, a list holding a statement with a parameter, and an array
\* that is no statement
SqlInputs ==
    PlainSqlInputs
    \cup { SqlTag("SELECT 1", << >>),
           SqlTag("SELECT ?", <<JsNumber(1)>>),
           JsArray(<<JsString("SELECT ?"), JsNumber(1)>>),
           JsArray(<<JsString("SELECT 1")>>),
           JsArray(<<JsArray(<<JsString("SELECT ?"), JsNumber(1)>>)>>),
           JsArray(<<JsNumber(1), JsNumber(2)>>) }

\* variant: the round robin step is taken for every query
QueryAdvances_Always(opts) == TRUE

\* variant: the round robin step is taken for the queries sent to the leader
QueryAdvances_LeaderOnly(opts) == opts.useLeader

\* "If round robin is true try and balance selects across hosts when the
\* master node is not queried directly"
QueryAdvances(opts) == ~opts.useLeader

\* query() after its await: the response has arrived
QueryReturn ==
    /\ pc = "success"
    /\ wrapper = "query"
    /\ pc' = "returned"
    /\ activeHostIndex' =
           IF QueryAdvances(options) THEN NextActiveHostIndex
           ELSE activeHostIndex
    /\ UNCHANGED <<hosts, leaderHostIndex, activeHostRoundRobin,
                   retryableHttpMethods, retryableStatusCodes, bundled, healthy,
                   fraction>>
    /\ UNCHANGED <<options, url, sent, wrapper, response, nextAttemptHostIndex,
                   waitTime, result, dispatches, nRedirects, nFailures,
                   lastLearned, applied, other>>

ClientNext ==
    \/ \E level \in {CONSISTENCY_LEVEL_NONE, CONSISTENCY_LEVEL_WEAK},
          leader \in BOOLEAN, sql \in PlainSqlInputs :
           query(sql, level, leader)
    \/ \E leader \in BOOLEAN : execute(JsString("SELECT 1"), leader)
    \/ Resolve
    \/ \E r \in Failures : Settle(r)
    \/ Catch
    \/ BackoffElapsed
    \/ QueryReturn
    \/ Finish

\* a client of at most MaxFairHosts hosts, called through query and execute
ClientSpec == FairInit /\ [][ClientNext]_vars

(***************************************************************************)
(* A second call on the same client, running while the first is in         *)
(* progress. Each action is one run of its code between two awaits. Only   *)
(* what decides its writes to the client is kept of it: useLeader, the      *)
(* method called and the rejection being handled; its counters are not      *)
(* kept, so that whether a budget is used up is a free choice, which        *)
(* covers every budget.                                                     *)
(***************************************************************************)
OtherStart(method, leader) ==
    /\ other.pc = "idle"
    /\ other' = [pc |-> "inflight", useLeader |-> leader, wrapper |-> method,
                 response |-> NoResponse]
    /\ UNCHANGED <<poolVars, callVars, applied>>

OtherSettle(r) ==
    /\ other.pc = "inflight"
    /\ other' = [other EXCEPT !.pc = "caught", !.response = r]
    /\ UNCHANGED <<poolVars, callVars, applied>>

\* the catch block of the second call
OtherCatch ==
    /\ other.pc = "caught"
    /\ UNCHANGED <<hosts, activeHostIndex, activeHostRoundRobin,
                   retryableHttpMethods, retryableStatusCodes, bundled, healthy,
                   fraction, callVars, applied>>
    /\ \E exhausted \in BOOLEAN :
         IF IsRedirect(other.response)
         THEN IF exhausted \/ (other.useLeader
                                /\ other.response.location = NoLocation)
              THEN /\ other' = NoCall
                   /\ UNCHANGED leaderHostIndex
              ELSE /\ leaderHostIndex' =
                          IF NewLeaderHostIndex(other,
                                                other.response.location) > -1
                          THEN ClampLeader(NewLeaderHostIndex(
                                               other, other.response.location))
                          ELSE leaderHostIndex
                   /\ other' = [other EXCEPT !.pc = "inflight",
                                             !.response = NoResponse]
         ELSE /\ UNCHANGED leaderHostIndex
              /\ other' = IF exhausted THEN NoCall
                          ELSE [other EXCEPT !.pc = "inflight",
                                             !.response = NoResponse]

\* axios resolves the request of the second call
OtherResolve ==
    /\ other.pc = "inflight"
    /\ other' = IF other.wrapper = "query"
                THEN [other EXCEPT !.pc = "success"]
                ELSE NoCall
    /\ UNCHANGED <<poolVars, callVars, applied>>

\* query() of the second call after its await
OtherQueryReturn ==
    /\ other.pc = "success"
    /\ other' = NoCall
    /\ activeHostIndex' =
           IF QueryAdvances(other) THEN NextActiveHostIndex
           ELSE activeHostIndex
    /\ UNCHANGED <<hosts, leaderHostIndex, activeHostRoundRobin,
                   retryableHttpMethods, retryableStatusCodes, bundled, healthy,
                   fraction, callVars, applied>>

\* the first of the two calls
ConcurrentCall ==
    \E method \in {HTTP_METHOD_GET, HTTP_METHOD_POST}, leader \in BOOLEAN,
       r \in 0 .. MaxRaceBudget, m \in 0 .. MaxRaceBudget :
        StartCall(method, leader, r, m)

ConcurrentNext ==
    \/ ConcurrentCall
    \/ Resolve
    \/ \E r \in Failures : Settle(r)
    \/ Catch
    \/ BackoffElapsed
    \/ Finish
    \/ \E method \in {"fetch", "query"}, leader \in BOOLEAN :
           OtherStart(method, leader)
    \/ \E r \in {f \in Failures : f.status \in {302, 503}} : OtherSettle(r)
    \/ OtherCatch
    \/ OtherResolve
    \/ OtherQueryReturn

\* two calls in progress on a client of MaxFairHosts hosts, built from the
\* source with the default options
ConcurrentInit ==
    Init /\ Len(hosts) = MaxFairHosts /\ ~bundled /\ activeHostRoundRobin

ConcurrentSpec == ConcurrentInit /\ [][ConcurrentNext]_vars

\* getWaitTimeExponential called directly
ApplyWaitTime(attempt, base, pow) ==
    /\ applied' = [fn |-> "getWaitTimeExponential",
                   args |-> <<attempt, base, pow>>,
                   value |-> getWaitTimeExponential(attempt, base, pow)]
    /\ UNCHANGED <<poolVars, callVars, other>>

\* requestIsRetryable called directly
ApplyIsRetryable(statusCode, errorCode, httpMethod) ==
    /\ applied' = [fn |-> "requestIsRetryable",
                   args |-> <<statusCode, errorCode, httpMethod>>,
                   value |-> requestIsRetryable(statusCode, errorCode,
                                                httpMethod)]
    /\ UNCHANGED <<poolVars, callVars, other>>

PolicyNext ==
    \/ \E attempt \in 0 .. MaxAttempt,
          base \in (0 .. MaxBase) \cup {exponentailBackoffBase},
          pow \in 1 .. MaxPow :
           ApplyWaitTime(attempt, base, pow)
    \/ \E statusCode \in {NoStatus, 200, 301, 404, 408, 503},
          errorCode \in {NoCode, "ECONNRESET", "EACCES"},
          httpMethod \in {HTTP_METHOD_GET, HTTP_METHOD_POST, "TRACE"} :
           ApplyIsRetryable(statusCode, errorCode, httpMethod)

\* the pure functions of the retry policy, applied in any order
PolicySpec == Init /\ [][PolicyNext]_vars

\* the transport settles every request, the catch block runs once the
\* request is rejected, and every backoff timer fires
FairSpec ==
    /\ FairInit
    /\ [][EngineNext]_vars
    /\ WF_vars(Respond) /\ WF_vars(Catch) /\ WF_vars(BackoffElapsed)

(***************************************************************************)
(* setHosts(), the constructor and findHostIndex() called directly         *)
(***************************************************************************)
\* index of the first "," token of s at or after position from, Len(s)+1 if
\* none
RECURSIVE FirstComma(_, _)
FirstComma(s, from) ==
    IF from > Len(s) THEN Len(s) + 1
    ELSE IF s[from] = "," THEN from
    ELSE FirstComma(s, from + 1)

\* String.prototype.split(','): the empty string gives one empty piece
RECURSIVE split(_)
split(s) ==
    LET cut == FirstComma(s, 1)
    IN IF cut > Len(s) THEN <<s>>
       ELSE <<SubSeq(s, 1, cut - 1)>> \o split(SubSeq(s, cut + 1, Len(s)))

RECURSIVE trimStart(_)
trimStart(v) ==
    IF Len(v) >= 1 /\ v[1] = " " THEN trimStart(Tail(v)) ELSE v

RECURSIVE trimEnd(_)
trimEnd(v) ==
    IF Len(v) >= 1 /\ v[Len(v)] = " " THEN trimEnd(SubSeq(v, 1, Len(v) - 1))
    ELSE v

\* String.prototype.trim()
trim(v) == trimEnd(trimStart(v))

\* replace(/\/$/, ''): one trailing slash removed
stripSlash(v) ==
    IF Len(v) >= 1 /\ v[Len(v)] = "/" THEN SubSeq(v, 1, Len(v) - 1)
    ELSE IF Len(v) >= 1 /\ v[Len(v)] = "//"
    THEN SubSeq(v, 1, Len(v) - 1) \o <<"/">>
    ELSE v

\* the flatMap of setHosts
RECURSIVE flatMapHosts(_)
flatMapHosts(list) ==
    IF list = << >> THEN << >>
    ELSE LET host == stripSlash(trim(Head(list)))
         IN (IF host # << >> THEN <<host>> ELSE << >>)
                \o flatMapHosts(Tail(list))

\* variant: a string is taken as one host, not split on ","
ToArray_NoSplit(input) ==
    IF ~input.isArray THEN <<input.value>> ELSE input.value

\* !Array.isArray(hosts) ? String(hosts).split(',') : hosts
ToArray(input) ==
    IF ~input.isArray THEN split(input.value) ELSE input.value

\* what setHosts(input) leaves in this.hosts
NormalizedHosts(input) == flatMapHosts(ToArray(input))

\* Array.prototype.join(',')
RECURSIVE join(_)
join(list) ==
    IF list = << >> THEN << >>
    ELSE IF Len(list) = 1 THEN list[1]
    ELSE list[1] \o <<",">> \o join(Tail(list))

\* host entries as a caller may write them
HostEntries ==
    { <<"http:", "//", "a">>,
      <<"http:", "//", "a", "/">>,
      <<" ", "http:", "//", "b", ":", "4001", "/", " ">>,
      <<"http:", "//", "a", "/", "db">>,
      <<" ">>,
      << >> }

\* lists of at most n host entries
RECURSIVE EntryLists(_)
EntryLists(n) ==
    IF n = 0 THEN {<< >>}
    ELSE LET shorter == EntryLists(n - 1)
         IN shorter \cup {Append(l, e) : l \in shorter, e \in HostEntries}

\* the hosts argument: the list itself, or its entries joined by ","
HostsInput(entries, asString) ==
    IF asString THEN [isArray |-> FALSE, value |-> join(entries)]
    ELSE [isArray |-> TRUE, value |-> entries]

\* client.setHosts(hosts)
ApplySetHosts(entries, asString) ==
    /\ hosts' = NormalizedHosts(HostsInput(entries, asString))
    /\ applied' = [fn |-> "setHosts", args |-> <<entries, asString>>,
                   value |-> "returned"]
    /\ UNCHANGED <<activeHostIndex, leaderHostIndex, activeHostRoundRobin,
                   retryableHttpMethods, retryableStatusCodes, bundled, healthy,
                   fraction, callVars, other>>

\* new HttpRequest(hosts): the client is replaced by the new one unless the
\* constructor throws
ApplyConstructor(entries, asString) ==
    LET normalized == NormalizedHosts(HostsInput(entries, asString))
    IN IF Len(normalized) = 0
       THEN /\ applied' = [fn |-> "constructor",
                           args |-> <<entries, asString>>,
                           value |-> "threw"]
            /\ UNCHANGED <<poolVars, callVars, other>>
       ELSE /\ hosts' = normalized
            /\ activeHostIndex' = 0
            /\ leaderHostIndex' = 0
            /\ fraction' = [active |-> FALSE, leader |-> FALSE]
            /\ applied' = [fn |-> "constructor",
                           args |-> <<entries, asString>>,
                           value |-> "returned"]
            /\ UNCHANGED <<activeHostRoundRobin, retryableHttpMethods,
                           retryableStatusCodes, bundled, healthy, callVars, other>>

\* URLs looked up in the pool
FindUrls ==
    { <<"http:", "//", "a">>,
      <<"http:", "//", "a", "/">>,
      <<"http:", "//", "a", ":", "80">>,
      <<"http:", "//", "a", "/", "db">>,
      <<"http:", "//", "a", "/", "db", "/">>,
      <<"http:", "//", "b", ":", "4001">>,
      <<"http:", "//", "b", ":", "4001", "/">>,
      <<"https:", "//", "a">>,
      HostUrl(0),
      ForeignUrl }

\* client.findHostIndex(host)
ApplyFindHostIndex(host) ==
    /\ applied' = [fn |-> "findHostIndex", args |-> <<host>>,
                   value |-> findHostIndex(host)]
    /\ UNCHANGED <<poolVars, callVars, other>>

PoolNext ==
    \/ \E entries \in EntryLists(MaxEntries), asString \in BOOLEAN :
           ApplySetHosts(entries, asString)
    \/ \E entries \in EntryLists(MaxEntries), asString \in BOOLEAN :
           ApplyConstructor(entries, asString)
    \/ \E host \in FindUrls : ApplyFindHostIndex(host)

\* the host list configured, reconfigured and searched in any order
PoolSpec == Init /\ [][PoolNext]_vars

(***************************************************************************)
(* The index setters called directly with any JavaScript number            *)
(***************************************************************************)
\* JavaScript numbers: the integer n, the non-integer n + 1/2, NaN and the
\* two infinities
Num(n) == [kind |-> "int", n |-> n]
Half(n) == [kind |-> "half", n |-> n]
NaN == [kind |-> "NaN", n |-> 0]
Infinity == [kind |-> "Infinity", n |-> 0]
NegInfinity == [kind |-> "-Infinity", n |-> 0]

\* the outcome of a call that threw
Threw == [kind |-> "threw", n |-> 0]

NumberIsFinite(x) == x.kind \in {"int", "half"}

\* this.activeHostIndex and this.leaderHostIndex as JavaScript numbers
ActiveNumber == [kind |-> IF fraction.active THEN "half" ELSE "int",
                 n |-> activeHostIndex]
LeaderNumber == [kind |-> IF fraction.leader THEN "half" ELSE "int",
                 n |-> leaderHostIndex]

\* what setActiveHostIndex(x) stores for a finite x: n + 1/2 < 0 exactly
\* when n < 0, and n + 1/2 >= totalHosts exactly when n >= totalHosts
StoredActive(x) ==
    IF x.kind = "int" THEN Num(ClampActive(x.n))
    ELSE IF x.n < 0 THEN Num(0)
    ELSE IF x.n >= getTotalHosts THEN Num(getTotalHosts - 1)
    ELSE x

\* what setLeaderHostIndex(x) stores for a finite x: n + 1/2 > totalHosts
\* exactly when n >= totalHosts
StoredLeader(x) ==
    IF x.kind = "int" THEN Num(ClampLeader(x.n))
    ELSE IF x.n < 0 THEN Num(0)
    ELSE IF x.n >= getTotalHosts THEN Num(getTotalHosts - 1)
    ELSE x

\* getNextActiveHostIndex of a JavaScript number: totalHosts === nextIndex
\* is false for a non-integer
NextActiveNumber(x) ==
    IF x.kind = "int" THEN Num(getNextActiveHostIndex(x.n)) ELSE Half(x.n + 1)

\* numbers a caller may pass to a setter
JsNumbers ==
    {Num(i) : i \in IndexArgs}
        \cup {Half(i) : i \in (0 - IndexSlack) .. getTotalHosts}
        \cup {NaN, Infinity, NegInfinity}

\* client.setActiveHostIndex(x)
ApplySetActiveHostIndex(x) ==
    IF ~NumberIsFinite(x)
    THEN /\ applied' = [fn |-> "setActiveHostIndex", args |-> <<x>>,
                        value |-> Threw]
         /\ UNCHANGED <<poolVars, callVars, other>>
    ELSE /\ activeHostIndex' = StoredActive(x).n
         /\ fraction' = [fraction EXCEPT
                             !.active = (StoredActive(x).kind = "half")]
         /\ applied' = [fn |-> "setActiveHostIndex", args |-> <<x>>,
                        value |-> StoredActive(x)]
         /\ UNCHANGED <<hosts, leaderHostIndex, activeHostRoundRobin,
                        retryableHttpMethods, retryableStatusCodes, bundled, healthy,
                        callVars, other>>

\* client.setLeaderHostIndex(x)
ApplySetLeaderHostIndex(x) ==
    IF ~NumberIsFinite(x)
    THEN /\ applied' = [fn |-> "setLeaderHostIndex", args |-> <<x>>,
                        value |-> Threw]
         /\ UNCHANGED <<poolVars, callVars, other>>
    ELSE /\ leaderHostIndex' = StoredLeader(x).n
         /\ fraction' = [fraction EXCEPT
                             !.leader = (StoredLeader(x).kind = "half")]
         /\ applied' = [fn |-> "setLeaderHostIndex", args |-> <<x>>,
                        value |-> StoredLeader(x)]
         /\ UNCHANGED <<hosts, activeHostIndex, activeHostRoundRobin,
                        retryableHttpMethods, retryableStatusCodes, bundled, healthy,
                        callVars, other>>

\* client.setNextActiveHostIndex(); applied.args is the index before the
\* first of the consecutive calls and the number of these calls, counted
\* up to one round of the pool
ApplySetNextActiveHostIndex ==
    LET stored == IF ~activeHostRoundRobin THEN ActiveNumber
                  ELSE IF getTotalHosts <= 1 THEN ActiveNumber
                  ELSE StoredActive(NextActiveNumber(ActiveNumber))
        run == IF /\ applied.fn = "setNextActiveHostIndex"
                  /\ applied.args[2] < getTotalHosts
               THEN <<applied.args[1], applied.args[2] + 1>>
               ELSE <<ActiveNumber, 1>>
    IN /\ activeHostIndex' = stored.n
       /\ fraction' = [fraction EXCEPT !.active = (stored.kind = "half")]
       /\ applied' = [fn |-> "setNextActiveHostIndex", args |-> run,
                      value |-> stored]
       /\ UNCHANGED <<hosts, leaderHostIndex, activeHostRoundRobin,
                      retryableHttpMethods, retryableStatusCodes, bundled, healthy,
                      callVars, other>>

SetterNext ==
    \/ \E x \in JsNumbers : ApplySetActiveHostIndex(x)
    \/ \E x \in JsNumbers : ApplySetLeaderHostIndex(x)
    \/ ApplySetNextActiveHostIndex

\* the index setters of an idle client, called in any order
SetterSpec == Init /\ [][SetterNext]_vars

(***************************************************************************)
(* Queries and direct calls of the pool methods, one after the other       *)
(***************************************************************************)
\* the rejections a query meets here: a fatal status, a retryable status,
\* and a redirect to the first host
QueryFailures ==
    {f \in Failures :
        \/ f.status \in {404, 503}
        \/ f.status = 302 /\ f.location = HostUrl(0) \o PATH_QUERY}

RoundRobinNext ==
    \/ \E level \in {CONSISTENCY_LEVEL_NONE, CONSISTENCY_LEVEL_WEAK},
          leader \in BOOLEAN, sql \in PlainSqlInputs :
           query(sql, level, leader)
    \/ Resolve
    \/ \E r \in QueryFailures : Settle(r)
    \/ Catch
    \/ BackoffElapsed
    \/ QueryReturn
    \/ Finish
    \/ \E i \in HostIndexes : pc = "idle" /\ ApplySetActiveHostIndex(Num(i))
    \/ pc = "idle" /\ ApplySetNextActiveHostIndex

\* a client of at most MaxFairHosts hosts whose caller issues queries and
\* moves the active host index itself between them
RoundRobinSpec == FairInit /\ [][RoundRobinNext]_vars

(***************************************************************************)
(* Nodes that behave steadily: the healthy ones answer every request with  *)
(* success, the others fail every request with a retryable failure         *)
(***************************************************************************)
\* the failures of a node that is down
DownFailures == {f \in Failures : f.status = 503 \/ f.code = "ECONNRESET"}

\* what may come back from a url that names no node (hosts[i] read outside
\* the array makes the url start with "undefined"): any failure that is
\* not a redirect
StrayFailures == {f \in Failures : f.status \notin {301, 302}}

\* axios settles the request as the node the url names behaves
HostAnswers ==
    /\ pc = "inflight"
    /\ IF HostIndexOfUrl(url) \in healthy THEN Resolve
       ELSE IF HostIndexOfUrl(url) >= 0 THEN \E r \in DownFailures : Settle(r)
       ELSE \E r \in StrayFailures : Settle(r)

\* a top-level call with the default budgets and a method that is retryable
FailoverCall ==
    \E method \in retryableHttpMethods \cap {HTTP_METHOD_GET, HTTP_METHOD_POST},
       leader \in BOOLEAN :
        StartCall(method, leader, Undefined, Undefined)

FailoverNext ==
    \/ FailoverCall
    \/ HostAnswers
    \/ Catch
    \/ BackoffElapsed
    \/ Finish
    \/ \E i \in IndexArgs : pc = "idle" /\ setActiveHostIndex(i)
    \/ \E i \in IndexArgs : pc = "idle" /\ setLeaderHostIndex(i)

\* a constructed client with at least one healthy node
FailoverInit ==
    /\ Constructed
    /\ healthy \in (SUBSET HostIndexes) \ {{}}

\* every request is settled, every catch block runs and every backoff timer
\* fires
FailoverSpec ==
    /\ FailoverInit
    /\ [][FailoverNext]_vars
    /\ WF_vars(HostAnswers) /\ WF_vars(Catch) /\ WF_vars(BackoffElapsed)

(***************************************************************************)
(* query and execute called with every kind of SQL input and level         *)
(***************************************************************************)
\* the level option: one of the three levels, or not given
QueryLevels ==
    {CONSISTENCY_LEVEL_NONE, CONSISTENCY_LEVEL_WEAK, CONSISTENCY_LEVEL_STRONG,
     NoLevel}

QueryNext ==
    \/ \E sql \in SqlInputs, level \in QueryLevels, leader \in BOOLEAN :
           query(sql, level, leader)
    \/ \E sql \in SqlInputs, leader \in BOOLEAN : execute(sql, leader)
    \/ Resolve
    \/ \E r \in {f \in QueryFailures : f.status # 302} : Settle(r)
    \/ Catch
    \/ BackoffElapsed
    \/ QueryReturn
    \/ Finish

\* a client of at most MaxFairHosts hosts, called through query and execute
\* with every kind of input
QuerySpec == FairInit /\ [][QueryNext]_vars

(***************************************************************************)
(* The status client of the bundled build                                  *)
(***************************************************************************)
PATH_STATUS == <<"/", "status">>

\* the object status() builds, { useLeader: true, ...options,
\* activeHostIndex }
StatusArgument(activeIndex) ==
    [t |-> "object", v |-> <<JsString("useLeader"), JsNumber(activeIndex)>>]

\* status(options): super.get(PATH_STATUS, { useLeader: true, ...options }).
\* get(path, sql, options = {}) takes the object for its sql parameter, so
\* its options are empty: useLeader is undefined and the object becomes q.
StatusOptions(arg) ==
    WrapperOptions(PATH_STATUS, HTTP_METHOD_GET, FALSE,
                   createQuery(NoLevel, arg), NoBody)

\* one element of the array statusAllHosts resolves to: the request that
\* was sent for index activeIndex (0-based), its response, and the host it
\* is paired with
StatusOfHost(activeIndex) ==
    [url |-> AttemptUrl(StatusOptions(StatusArgument(activeIndex))),
     params |-> AxiosConfig(StatusOptions(StatusArgument(activeIndex))).params,
     response |-> Success.status,
     host |-> hosts[activeIndex + 1]]

\* client.statusAllHosts(): hosts.map starts one status() per host, each
\* running up to its axios call before the next starts; every host answers
\* and Promise.all gives the pairs in the order of the hosts
ApplyStatusAllHosts ==
    /\ bundled
    /\ healthy = HostIndexes
    /\ applied' = [fn |-> "statusAllHosts", args |-> << >>,
                   value |-> [i \in 1 .. getTotalHosts |-> StatusOfHost(i - 1)]]
    /\ UNCHANGED <<poolVars, callVars, other>>

StatusNext ==
    \/ ApplyStatusAllHosts
    \/ \E i \in IndexArgs : ApplySetActiveHostIndex(Num(i))
    \/ \E i \in IndexArgs : ApplySetLeaderHostIndex(Num(i))
    \/ ApplySetNextActiveHostIndex

\* the bundled build with every host up
StatusInit ==
    /\ Constructed
    /\ bundled
    /\ healthy = HostIndexes

\* statusAllHosts of an idle client whose indexes the setters move
StatusSpec == StatusInit /\ [][StatusNext]_vars

TypeOK ==
    /\ pc \in {"idle", "inflight", "caught", "waiting", "success", "failed"}
    /\ activeHostIndex \in Int
    /\ leaderHostIndex \in Int

(***************************************************************************)
(* Claims                                                                  *)
(***************************************************************************)
InCall == pc \in {"inflight", "caught", "waiting"}
Ended == pc \in {"success", "failed"}

\* C1: after any sequence of setActiveHostIndex(i), setLeaderHostIndex(i),
\* setNextActiveHostIndex and fetch() calls, activeHostIndex and
\* leaderHostIndex are both in [0, hostCount-1].
C1_IndicesInRange ==
    /\ activeHostIndex \in 0 .. (Len(hosts) - 1)
    /\ leaderHostIndex \in 0 .. (Len(hosts) - 1)

\* C2: every logical call terminates: once dispatched, it reaches success or
\* failure, whatever the transport answers, provided it answers every request.
C2_CallTerminates == InCall ~> Ended

\* C2 witness: a call that was redirected and retried has ended.
C2_Witness == Ended /\ nRedirects >= 1 /\ nFailures >= 2

\* C3 as stated: one logical call makes at most maxRedirects + maxRetries
\* axios calls, counting the first.
C3_Original ==
    pc # "idle" => dispatches <= MaxRedirects(options) + Retries(options)

\* C3 amended: one logical call makes at most maxRedirects + maxRetries + 1
\* axios calls: the first attempt, one per followed redirect, one per retry.
C3_DispatchBound ==
    pc # "idle" => dispatches <= MaxRedirects(options) + Retries(options) + 1

\* C3 witness: a call that used both budgets up and made one call more.
C3_Witness ==
    /\ pc = "inflight"
    /\ options.maxRedirects >= 1
    /\ options.retries >= 1
    /\ dispatches = options.maxRedirects + options.retries + 1

\* C4: with 3 hosts and leaderHostIndex = 0, a useLeader request to hosts[0]
\* answered 301 with Location = hosts[2] followed by the request path is sent
\* again to that Location with redirectAttempt = 1, and leaderHostIndex
\* becomes 2.
C4_Scenario ==
    /\ pc = "caught"
    /\ Len(hosts) = 3
    /\ leaderHostIndex = 0
    /\ options.useLeader
    /\ options.redirectAttempt = 0
    /\ MaxRedirects(options) >= 1
    /\ url = HostUrl(0) \o PATH_QUERY
    /\ response.status = 301
    /\ response.location = HostUrl(2) \o PATH_QUERY

C4_LeaderLearnedFromRedirect ==
    [][C4_Scenario =>
          /\ pc' = "inflight"
          /\ url' = HostUrl(2) \o PATH_QUERY
          /\ options'.redirectAttempt = 1
          /\ leaderHostIndex' = 2]_vars

\* C5: the engine changes leaderHostIndex in exactly one case: the attempt was
\* a useLeader request, the answer was 301/302 with redirect budget left, and
\* findHostIndex(Location) found an index; that index is then stored. Every
\* other step of the engine leaves leaderHostIndex as it was.
C5_LearnCase ==
    /\ pc = "caught"
    /\ options.useLeader
    /\ response.status \in {301, 302}
    /\ options.redirectAttempt < MaxRedirects(options)
    /\ findHostIndex(response.location) > -1

C5_LeaderChange ==
    [][IF C5_LearnCase
       THEN leaderHostIndex' = findHostIndex(response.location)
       ELSE leaderHostIndex' = leaderHostIndex]_vars

\* C5 witness: a useLeader call redirected to hosts[2] has stored 2.
C5_Witness ==
    /\ pc = "inflight"
    /\ options.useLeader
    /\ options.redirectAttempt >= 1
    /\ options.uri = HostUrl(2)
    /\ leaderHostIndex = 2

\* C6 as stated: a value other than 0 is stored in leaderHostIndex only for a
\* host that accepts a useLeader request; a host that has only been named,
\* has redirected or has failed is never stored.
C6_Original ==
    [][(leaderHostIndex' # leaderHostIndex /\ leaderHostIndex' # 0) =>
          /\ pc = "inflight"
          /\ pc' = "success"
          /\ options.useLeader
          /\ HostIndexOfUrl(url) = leaderHostIndex']_vars

\* C6 amended: through engine calls only, leaderHostIndex is its initial 0
\* or the index findHostIndex found for the Location of the last followed
\* redirect of a useLeader attempt that named a configured host; it is
\* stored when the redirect is received, before that host has answered.
C6_LeaderIsLearned ==
    pc # "caught" =>
        leaderHostIndex = (IF lastLearned = -1 THEN 0 ELSE lastLearned)

\* C6 witness: the host stored as leader failed the first request sent to it
\* by this call.
C6_Witness ==
    /\ pc = "failed"
    /\ result.error = "transport"
    /\ options.useLeader
    /\ dispatches = 2
    /\ options.redirectAttempt = 1
    /\ leaderHostIndex # 0
    /\ HostIndexOfUrl(url) = leaderHostIndex

\* C7: with two or more hosts and a relative path, the retry of a failed
\* attempt never goes to the host of the failed attempt.
C7_RetryChangesHost ==
    [][(/\ pc = "waiting"
        /\ pc' = "inflight"
        /\ Len(hosts) >= 2
        /\ ~uriIsAbsolute(options.uri)) =>
          HostIndexOfUrl(url') # HostIndexOfUrl(url)]_vars

\* C8: when the attempt sent to a redirect Location fails retryably, the
\* retry goes to hosts[nextAttemptHostIndex] and not to the Location again.
C8_RetryAfterRedirectRotates ==
    [][(/\ pc = "waiting"
        /\ pc' = "inflight"
        /\ options.redirectAttempt >= 1
        /\ Len(hosts) >= 2) =>
          /\ url' # url
          /\ HostIndexOfUrl(url') = nextAttemptHostIndex]_vars

\* C9: a 301/302 answer is never handled as a retry: retryAttempt keeps its
\* value and no backoff wait starts; with redirect budget left and a
\* Location present it is followed, whatever requestIsRetryable says.
C9_RedirectNotRetry ==
    [][(pc = "caught" /\ response.status \in {301, 302}) =>
          /\ options'.retryAttempt = options.retryAttempt
          /\ pc' # "waiting"
          /\ waitTime' = waitTime
          /\ (/\ options.redirectAttempt < MaxRedirects(options)
              /\ response.location # NoLocation) =>
                 /\ pc' = "inflight"
                 /\ url' = response.location
                 /\ options'.redirectAttempt = options.redirectAttempt + 1]_vars

\* C9 witness: a redirect was followed although requestIsRetryable holds of
\* the redirect status and the method.
C9_Witness ==
    /\ pc = "inflight"
    /\ options.redirectAttempt >= 1
    /\ options.retryAttempt = 0
    /\ nFailures = 0
    /\ requestIsRetryable(301, NoCode, options.httpMethod)
    /\ requestIsRetryable(302, NoCode, options.httpMethod)

\* C10: redirectAttempt counts the redirects and retryAttempt the retried
\* failures of the call, neither is reset by the other, and a call fails only
\* when it got more redirects than maxRedirects, more failures than retries,
\* a failure that is not retryable, or a redirect without a Location.
C10_IndependentBudgets ==
    /\ pc \in {"inflight", "success"} =>
          /\ options.redirectAttempt = nRedirects
          /\ options.retryAttempt = nFailures
    /\ pc = "waiting" =>
          /\ options.redirectAttempt = nRedirects
          /\ options.retryAttempt + 1 = nFailures
    /\ pc = "failed" =>
          \/ nRedirects > MaxRedirects(options)
          \/ nFailures > Retries(options)
          \/ /\ result.error = "transport"
             /\ ~requestIsRetryable(result.cause.status, result.cause.code,
                                    options.httpMethod)
          \/ result.error \in {"TypeError", "UriRequired"}

\* C10 witness: a call succeeded after as many redirects as maxRedirects and
\* as many retried failures as retries.
C10_Witness ==
    /\ pc = "success"
    /\ options.maxRedirects >= 1
    /\ options.retries >= 1
    /\ nRedirects = options.maxRedirects
    /\ nFailures = options.retries

\* C11: a 301/302 answer received when redirectAttempt >= maxRedirects ends
\* the call with the max redirects error and without another dispatch; with
\* maxRedirects = 0 the first 302 raises it after exactly one dispatch; no
\* call follows more than maxRedirects redirects.
C11_MaxRedirectsExceeded ==
    /\ [][(/\ pc = "caught"
            /\ response.status \in {301, 302}
            /\ options.redirectAttempt >= MaxRedirects(options)) =>
              /\ pc' = "failed"
              /\ result'.kind = "rejected"
              /\ result'.error = "MaxRedirects"
              /\ dispatches' = dispatches]_vars
    /\ [](pc # "idle" => options.redirectAttempt <= MaxRedirects(options))
    /\ []((/\ pc = "failed"
            /\ options.maxRedirects = 0
            /\ nRedirects = 1
            /\ nFailures = 0) =>
              /\ result.error = "MaxRedirects"
              /\ dispatches = 1)

\* C12: a retryable failure is retried if and only if retryAttempt < retries;
\* a call whose every attempt fails retryably makes exactly retries + 1
\* dispatches, 3 x hostCount + 1 with the default budget, and then rejects
\* with the last failure of the transport, unchanged.
C12_RetryBudget ==
    /\ [][(/\ pc = "caught"
            /\ response.status \notin {301, 302}
            /\ requestIsRetryable(response.status, response.code,
                                  options.httpMethod)) =>
              IF options.retryAttempt <
                     (IF options.retries = Undefined THEN 3 * Len(hosts)
                      ELSE options.retries)
              THEN pc' = "waiting" /\ result' = result
              ELSE /\ pc' = "failed"
                   /\ result' = Rejected("transport", response)
                   /\ dispatches' = dispatches]_vars
    /\ []((/\ pc = "failed"
            /\ result.error = "transport"
            /\ options.redirectAttempt = 0
            /\ requestIsRetryable(result.cause.status, result.cause.code,
                                  options.httpMethod)) =>
              LET budget == IF options.retries = Undefined THEN 3 * Len(hosts)
                            ELSE options.retries
              IN /\ options.attempt = budget
                 /\ dispatches = Counted(budget + 1)
                 /\ nFailures = Counted(budget + 1))

\* C12 witness: with three hosts and the default budget a call was rejected
\* with the ECONNRESET of its tenth attempt.
C12_Witness ==
    /\ pc = "failed"
    /\ Len(hosts) = 3
    /\ options.retries = Undefined
    /\ options.attempt = 9
    /\ options.redirectAttempt = 0
    /\ result = Rejected("transport",
                         [status |-> NoStatus, code |-> "ECONNRESET",
                          location |-> NoLocation])

\* C13: a failure that is neither a 301/302 nor retryable (method outside the
\* retryable methods, or status and error code both outside the retryable
\* sets) is rethrown unchanged at once: no dispatch, no backoff wait, and
\* activeHostIndex and leaderHostIndex keep their values.
C13_FatalFailure ==
    [][(/\ pc = "caught"
        /\ response.status \notin {301, 302}
        /\ \/ options.httpMethod \notin retryableHttpMethods
           \/ /\ response.status \notin retryableStatusCodes
              /\ response.code \notin RETRYABLE_ERROR_CODES) =>
          /\ pc' = "failed"
          /\ result'.kind = "rejected"
          /\ result'.error = "transport"
          /\ result'.cause = response
          /\ dispatches' = dispatches
          /\ waitTime' = waitTime
          /\ activeHostIndex' = activeHostIndex
          /\ leaderHostIndex' = leaderHostIndex]_vars

\* C13 witness: a POST answered 503 was rejected after its only dispatch,
\* with retries left, by a client whose retryable methods exclude POST.
C13_Witness ==
    /\ pc = "failed"
    /\ options.httpMethod = HTTP_METHOD_POST
    /\ HTTP_METHOD_POST \notin retryableHttpMethods
    /\ options.retries >= 1
    /\ result.error = "transport"
    /\ result.cause.status = 503
    /\ dispatches = 1

\* C14: a call that succeeds after redirects and retried failures returns
\* the status and the body of the attempt that succeeded and no error; a GET
\* to a single host that fails once and then succeeds has made exactly two
\* dispatches and returns the body of the second.
C14_SuccessHidesAttempts ==
    /\ pc = "success" =>
          /\ result.kind = "resolved"
          /\ result.error = "none"
          /\ result.status = Success.status
          /\ result.body = dispatches
          /\ dispatches = nRedirects + nFailures + 1
    /\ (/\ pc = "success"
        /\ Len(hosts) = 1
        /\ options.httpMethod = HTTP_METHOD_GET
        /\ nRedirects = 0
        /\ nFailures = 1) =>
          /\ dispatches = 2
          /\ result.body = 2

\* C14 witness: a call returned the body of its third attempt, after one
\* redirect and one retried failure.
C14_Witness ==
    /\ pc = "success"
    /\ nRedirects = 1
    /\ nFailures = 1
    /\ result.body = 3

\* C15 as stated: before the first retry of a call the engine waits
\* backoffBase x 2^0, that is backoffBase.
C15_Original ==
    (pc = "waiting" /\ options.retryAttempt = 0) =>
        waitTime = exponentailBackoffBase

\* C15 amended: before the first retry of a call the engine waits 0: the
\* first retry is immediate; backoffBase x 2^1 is waited before the second.
C15_FirstRetryImmediate ==
    /\ (pc = "waiting" /\ options.retryAttempt = 0) => waitTime = 0
    /\ (pc = "waiting" /\ options.retryAttempt = 1) =>
           waitTime = exponentailBackoffBase * 2

\* C15 witness: the call waits before its first retry.
C15_Witness ==
    /\ pc = "waiting"
    /\ options.retryAttempt = 0
    /\ nFailures = 1
    /\ dispatches = 1

WaitApplied == applied.fn = "getWaitTimeExponential"

\* x multiplied n times by k
RECURSIVE Scaled(_, _, _)
Scaled(n, x, k) == IF n = 0 THEN x ELSE Scaled(n - 1, x * k, k)

\* x doubled n times
RECURSIVE Doubled(_, _)
Doubled(n, x) == IF n = 0 THEN x ELSE Doubled(n - 1, x + x)

\* C16: getWaitTimeExponential(attempt, base, pow) is 0 for attempt 0 and
\* pow^attempt x base otherwise; for base >= 1 and pow 2 the wait of the next
\* attempt is strictly greater than the wait of the attempt before it, with
\* no cap.
C16_WaitTimeGrows ==
    /\ [](WaitApplied =>
             applied.value = (IF applied.args[1] = 0 THEN 0
                              ELSE Scaled(applied.args[1], applied.args[2],
                                          applied.args[3])))
    /\ [][(/\ WaitApplied
            /\ applied'.fn = "getWaitTimeExponential"
            /\ applied.args[2] >= 1
            /\ applied'.args[2] = applied.args[2]
            /\ applied.args[3] = 2
            /\ applied'.args[3] = 2
            /\ applied'.args[1] = applied.args[1] + 1) =>
              applied'.value > applied.value]_vars

\* C16 witness: the wait of the fourth retry with base 1 and power 2.
C16_Witness == WaitApplied /\ applied.args = <<MaxAttempt, 1, 2>>

\* C17 as stated: for n >= 1 and any base, the wait with power 2 is
\* 4^n x base.
C17_Original ==
    (WaitApplied /\ applied.args[1] >= 1 /\ applied.args[3] = 2) =>
        applied.value = Scaled(applied.args[1], applied.args[2], 4)

\* C17 amended: for n >= 1 and any base, the wait with power 2 is
\* 2^n x base.
C17_PowerOfTwo ==
    (WaitApplied /\ applied.args[1] >= 1 /\ applied.args[3] = 2) =>
        applied.value = Doubled(applied.args[1], applied.args[2])

\* C17 witness: the wait of attempt 3 with the default base and power 2.
C17_Witness ==
    /\ WaitApplied
    /\ applied.args = <<3, exponentailBackoffBase, 2>>
    /\ applied.value = 800

\* C18: requestIsRetryable is true exactly when the method is a retryable
\* method and the status is a retryable status or the error code a retryable
\* error code; requestIsRetryable(POST, 503, none) is false when POST is
\* excluded and true when it is included.
C18_IsRetryable ==
    applied.fn = "requestIsRetryable" =>
        /\ applied.value =
               (/\ applied.args[3] \in retryableHttpMethods
                /\ \/ applied.args[1] \in retryableStatusCodes
                   \/ applied.args[2] \in RETRYABLE_ERROR_CODES)
        /\ applied.args[3] \notin retryableHttpMethods => applied.value = FALSE
        /\ applied.args = <<503, NoCode, HTTP_METHOD_POST>> =>
               applied.value = (HTTP_METHOD_POST \in retryableHttpMethods)

\* C18 witness: POST answered 503 is not retryable for a client whose
\* retryable methods exclude POST.
C18_Witness ==
    /\ applied.fn = "requestIsRetryable"
    /\ applied.args = <<503, NoCode, HTTP_METHOD_POST>>
    /\ HTTP_METHOD_POST \notin retryableHttpMethods
    /\ applied.value = FALSE

\* C19: unless the caller puts POST into the retryable methods, a POST is
\* never sent again after a transport error or a retryable status: with the
\* retry configuration left to its defaults a failed POST is dispatched
\* exactly once.
C19_PostNotRetried ==
    (/\ pc # "idle"
     /\ options.httpMethod = HTTP_METHOD_POST
     /\ retryableHttpMethods = RETRYABLE_HTTP_METHODS
     /\ retryableStatusCodes = RETRYABLE_STATUS_CODES
     /\ nRedirects = 0) =>
        /\ pc # "waiting"
        /\ dispatches = 1

C21_Advanced ==
    IF activeHostRoundRobin /\ Len(hosts) > 1
    THEN (activeHostIndex + 1) % Len(hosts)
    ELSE activeHostIndex

C22_NoCorruption ==
    /\ [](/\ activeHostIndex \in 0 .. (Len(hosts) - 1)
           /\ leaderHostIndex \in 0 .. (Len(hosts) - 1))
    /\ [][leaderHostIndex' # leaderHostIndex =>
              \/ /\ pc = "caught"
                 /\ options.useLeader
                 /\ leaderHostIndex' = findHostIndex(response.location)
              \/ /\ other.pc = "caught"
                 /\ other.useLeader
                 /\ leaderHostIndex' = findHostIndex(other.response.location)]_vars
    /\ [][activeHostIndex' # activeHostIndex =>
              /\ other.pc = "success"
              /\ other'.pc = "idle"
              /\ activeHostIndex' = (activeHostIndex + 1) % Len(hosts)]_vars

\* C22 witness: while the first call waits for its request to the leader it
\* learned, the second call has stored another leader; the later write
\* stands.
C22_Witness ==
    /\ pc = "inflight"
    /\ options.useLeader
    /\ lastLearned = 1
    /\ leaderHostIndex = 0
    /\ other.pc = "inflight"
    /\ other.useLeader
    /\ activeHostIndex = 1

\* requests of the call that axios has not settled yet
C23_Outstanding ==
    dispatches - (nRedirects + nFailures + (IF pc = "success" THEN 1 ELSE 0))

\* C23: the attempts of a call are strictly sequential: at most one request
\* is outstanding; a request is sent only when none is outstanding: first
\* of all, or when the answer to the one before is a redirect with redirect
\* budget left, or when a failure with retry budget left has been received
\* and the backoff timer set for it has fired.
C23_Sequential ==
    /\ [](pc # "idle" =>
             C23_Outstanding = (IF pc = "inflight" THEN 1 ELSE 0))
    /\ [][(dispatches' # dispatches /\ pc' # "idle") =>
              /\ dispatches' = dispatches + 1
              /\ pc' = "inflight"
              /\ pc \in {"idle", "caught", "waiting"}
              /\ pc = "idle" => dispatches = 0
              /\ pc = "caught" =>
                     /\ response.status \in {301, 302}
                     /\ options.redirectAttempt < MaxRedirects(options)
              /\ pc = "waiting" =>
                     /\ waitTime >= 0
                     /\ nFailures = options.retryAttempt + 1
                     /\ options.retryAttempt < Retries(options)]_vars
    /\ [][pc = "waiting" => dispatches' = dispatches \/ pc' = "inflight"]_vars

\* C23 witness: the third request of a call is outstanding, after a
\* redirect and a backoff wait.
C23_Witness ==
    /\ pc = "inflight"
    /\ dispatches = 3
    /\ nRedirects = 1
    /\ nFailures = 1

\* C24: the request sent to the Location of a redirect is the request that
\* was redirected: same method, body and headers as the first attempt (a
\* POST is posted again with its body), and every request is handed to
\* axios with maxRedirects 0.
C24_Reposted ==
    /\ [](pc = "inflight" =>
             /\ sent.maxRedirects = 0
             /\ sent.method = options.httpMethod
             /\ sent.data = (IF sent.method = HTTP_METHOD_POST THEN SqlBody
                             ELSE NoBody)
             /\ (sent.method = HTTP_METHOD_POST) = (CallerHeader \in sent.headers))
    /\ [][(pc = "caught" /\ pc' = "inflight") =>
              /\ url' = response.location
              /\ sent' = sent]_vars
    /\ [][(pc # "idle" /\ pc' # "idle") =>
              options'.httpMethod = options.httpMethod]_vars

\* C24 witness: a POST was sent to the Location of a redirect with its body
\* and the header of the caller.
C24_Witness ==
    /\ pc = "inflight"
    /\ options.redirectAttempt = 1
    /\ url = HostUrl(1) \o PATH_QUERY
    /\ sent.method = HTTP_METHOD_POST
    /\ sent.data = SqlBody
    /\ CallerHeader \in sent.headers

\* the port a URL names, the default port of its scheme when it names none
C25_Port(parsed) ==
    IF parsed.port # "" THEN parsed.port
    ELSE IF parsed.protocol = "http:" THEN "80"
    ELSE IF parsed.protocol = "https:" THEN "443"
    ELSE ""

\* scheme, host, port and path of a URL, the path without a trailing slash
C25_Endpoint(u) ==
    LET parsed == parseUrl(u)
        path == parsed.path
    IN [protocol |-> parsed.protocol,
        hostname |-> parsed.hostname,
        port |-> C25_Port(parsed),
        path |-> IF Len(path) >= 1 /\ path[Len(path)] = "/"
                 THEN SubSeq(path, 1, Len(path) - 1) ELSE path]

\* C25: findHostIndex(u) returns the index of a pool host with the scheme,
\* host, port and path of u, and -1 if there is none; a trailing slash or a
\* spelled-out default port in u does not prevent the match.
C25_FindHostIndex ==
    applied.fn = "findHostIndex" =>
        LET u == applied.args[1]
            found == applied.value
        IN /\ found \in -1 .. (Len(hosts) - 1)
           /\ found >= 0 => C25_Endpoint(hosts[found + 1]) = C25_Endpoint(u)
           /\ found = -1 =>
                  \A i \in 1 .. Len(hosts) :
                      C25_Endpoint(hosts[i]) # C25_Endpoint(u)

\* one entry as configure normalizes it: surrounding blanks removed, then
\* one trailing slash
C26_Entry(e) ==
    LET first == CHOOSE i \in 1 .. (Len(e) + 1) :
                     /\ \A j \in 1 .. (i - 1) : e[j] = " "
                     /\ i <= Len(e) => e[i] # " "
        last == CHOOSE i \in 0 .. Len(e) :
                    /\ \A j \in (i + 1) .. Len(e) : e[j] = " "
                    /\ i >= 1 => e[i] # " "
        core == IF first > last THEN << >> ELSE SubSeq(e, first, last)
    IN IF core # << >> /\ core[Len(core)] = "/"
       THEN SubSeq(core, 1, Len(core) - 1) ELSE core

\* the entries normalized one by one, the empty ones left out, in order
C26_Normalized(entries) ==
    SelectSeq([i \in 1 .. Len(entries) |-> C26_Entry(entries[i])],
              LAMBDA e : e # << >>)

\* C26: setHosts leaves the same host list for a list of entries and for
\* the string of these entries joined by ",": the entries trimmed, one
\* trailing slash removed, the empty ones dropped, the order kept.
C26_ArrayAndString ==
    applied.fn = "setHosts" => hosts = C26_Normalized(applied.args[1])

\* C26 witness: setHosts was given a comma-delimited string of two entries,
\* one of them blank-padded with a trailing slash, and kept both in order.
C26_Witness ==
    /\ applied.fn = "setHosts"
    /\ applied.args[2]
    /\ applied.args[1] = << <<"http:", "//", "a", "/">>,
                            <<" ", "http:", "//", "b", ":", "4001", "/", " ">> >>
    /\ hosts = << <<"http:", "//", "a">>, <<"http:", "//", "b", ":", "4001">> >>

\* C27: configuring a host list that normalizes to nothing fails, in the
\* constructor and in setHosts on an existing client, so that a client
\* always has at least one host.
C27_NeverEmpty ==
    /\ Len(hosts) >= 1
    /\ (/\ applied.fn \in {"setHosts", "constructor"}
        /\ C26_Normalized(applied.args[1]) = << >>)
           => applied.value = "threw"

\* i clamped into [0, hostCount-1]
C28_Clamped(i) ==
    IF i < 0 THEN 0
    ELSE IF i > Len(hosts) - 1 THEN Len(hosts) - 1
    ELSE i

\* C28: for every integer i, setActiveHostIndex(i) and setLeaderHostIndex(i)
\* store and return max(0, min(i, hostCount-1)).
C28_SettersClamp ==
    /\ (applied.fn = "setActiveHostIndex" /\ applied.args[1].kind = "int") =>
           /\ applied.value = [kind |-> "int",
                               n |-> C28_Clamped(applied.args[1].n)]
           /\ activeHostIndex = C28_Clamped(applied.args[1].n)
           /\ ~fraction.active
    /\ (applied.fn = "setLeaderHostIndex" /\ applied.args[1].kind = "int") =>
           /\ applied.value = [kind |-> "int",
                               n |-> C28_Clamped(applied.args[1].n)]
           /\ leaderHostIndex = C28_Clamped(applied.args[1].n)
           /\ ~fraction.leader

\* C29: setActiveHostIndex and setLeaderHostIndex called with NaN, an
\* infinity or a non-integer number throw and leave both indexes as they
\* were.
C29_RejectsNonIntegers ==
    [][(/\ applied'.fn \in {"setActiveHostIndex", "setLeaderHostIndex"}
        /\ applied'.args[1].kind # "int") =>
           /\ applied'.value.kind = "threw"
           /\ activeHostIndex' = activeHostIndex
           /\ leaderHostIndex' = leaderHostIndex
           /\ fraction' = fraction]_vars

C31_AdvanceFrame ==
    /\ [][(applied' # applied /\ applied'.fn = "setNextActiveHostIndex") =>
              /\ hosts' = hosts
              /\ leaderHostIndex' = leaderHostIndex
              /\ (~activeHostRoundRobin \/ Len(hosts) <= 1) =>
                     activeHostIndex' = activeHostIndex]_vars
    /\ [][(~activeHostRoundRobin /\ applied' = applied) =>
              activeHostIndex' = activeHostIndex]_vars

\* C31 witness: with round robin disabled, a query read from the second
\* host, after a failover, has returned and the index is still 1.
C31_Witness ==
    /\ ~activeHostRoundRobin
    /\ pc = "returned"
    /\ wrapper = "query"
    /\ ~options.useLeader
    /\ nFailures >= 1
    /\ activeHostIndex = 1

\* C32: with round robin enabled and two or more hosts, successive awaited
\* level-none queries that succeed at their first attempt walk the pool: a
\* query is first sent to hosts[activeHostIndex], and when it returns
\* activeHostIndex is the index after that host, modulo the host count; so
\* the i-th query of a row goes to hosts[(a + i) mod hostCount].
C32_ReadsWalkThePool ==
    /\ [][(/\ pc = "idle" /\ pc' = "inflight"
           /\ wrapper' = "query"
           /\ ~options'.useLeader) =>
              url' = hosts[activeHostIndex + 1] \o PATH_QUERY]_vars
    /\ [][(/\ pc = "success" /\ pc' = "returned"
           /\ wrapper = "query"
           /\ ~options.useLeader
           /\ dispatches = 1
           /\ activeHostRoundRobin
           /\ Len(hosts) >= 2) =>
              /\ url = hosts[activeHostIndex + 1] \o PATH_QUERY
              /\ activeHostIndex' = (activeHostIndex + 1) % Len(hosts)]_vars

\* C32 witness: the query sent to the last host has returned and the index
\* is back at the first host.
C32_Witness ==
    /\ activeHostRoundRobin
    /\ Len(hosts) = 2
    /\ pc = "returned"
    /\ wrapper = "query"
    /\ ~options.useLeader
    /\ dispatches = 1
    /\ url = HostUrl(1) \o PATH_QUERY
    /\ activeHostIndex = 0

\* C33: in a call without useLeader, with a relative path, in which every
\* failure so far was retryable and no redirect came, the k-th attempt
\* (k = 0, 1, ...) is sent to hosts[(activeHostIndex + k) mod hostCount].
C33_AttemptsWalkThePool ==
    (/\ pc = "inflight"
     /\ ~options.useLeader
     /\ nRedirects = 0
     /\ activeHostIndex \in 0 .. (Len(hosts) - 1)) =>
        url = hosts[((activeHostIndex + (dispatches - 1)) % Len(hosts)) + 1]
                  \o PATH_QUERY

\* C33 witness: on a pool of three hosts with activeHostIndex 1, the third
\* attempt is on its way to the first host.
C33_Witness ==
    /\ pc = "inflight"
    /\ ~options.useLeader
    /\ nRedirects = 0
    /\ Len(hosts) = 3
    /\ activeHostIndex = 1
    /\ dispatches = 3
    /\ url = HostUrl(0) \o PATH_QUERY

\* C34: with the default budgets, a retryable method and a relative path,
\* when at least one host answers every request with success and the
\* others fail with retryable failures, every call, with useLeader or
\* without, whatever activeHostIndex and leaderHostIndex are, returns the
\* success response.
C34_Failover == InCall ~> (pc = "success")

\* the same for a leaderHostIndex that names a host
C34_FailoverInRange ==
    (InCall /\ leaderHostIndex \in 0 .. (Len(hosts) - 1)) ~> (pc = "success")

\* C35: on a pool of two or more hosts, the retry of a call without
\* useLeader that met no redirect is never sent to the host whose failure
\* it answers, also when another call has moved activeHostIndex round
\* robin between the first request of the call and that failure.
C35_RetryLeavesFailedHost ==
    [][(/\ pc = "waiting" /\ pc' = "inflight"
        /\ ~options.useLeader
        /\ nRedirects = 0
        /\ Len(hosts) >= 2) =>
           url' # url]_vars

\* C36: a 301/302 response without a location header ends the call with
\* an error in the catch block that handles it: no request is sent any
\* more, and leaderHostIndex and activeHostIndex stay as they are.
C36_RedirectWithoutLocation ==
    [][(/\ pc = "caught"
        /\ response.status \in {301, 302}
        /\ response.location = NoLocation) =>
           /\ pc' = "failed"
           /\ result'.kind = "rejected"
           /\ result'.error \in {"UriRequired", "TypeError", "MaxRedirects"}
           /\ dispatches' = dispatches
           /\ url' = url
           /\ leaderHostIndex' = leaderHostIndex
           /\ activeHostIndex' = activeHostIndex]_vars

\* C36 witness: a call without useLeader was rejected for want of a uri
\* after its first and only request was answered by a redirect.
C36_Witness ==
    /\ pc = "failed"
    /\ result.error = "UriRequired"
    /\ ~options.useLeader
    /\ dispatches = 1
    /\ nRedirects = 1

\* C37: query sends with useLeader when the level is not 'none' (also when
\* no level is given) or the caller asked for the leader, and then to
\* hosts[leaderHostIndex]; only a level-'none' query without useLeader is
\* sent to hosts[activeHostIndex]. activeHostIndex changes only when such a
\* query has succeeded; a query that fails leaves it as it is.
C37_QueryUsesLeader ==
    /\ [][\A sql \in SqlInputs, level \in QueryLevels, leader \in BOOLEAN :
              (query(sql, level, leader) /\ pc' = "inflight") =>
                  /\ options'.useLeader = (level # "none" \/ leader)
                  /\ url' = (IF level = "none" /\ ~leader
                             THEN hosts[activeHostIndex + 1]
                             ELSE hosts[leaderHostIndex + 1]) \o PATH_QUERY]_vars
    /\ [][activeHostIndex' # activeHostIndex =>
              /\ pc = "success" /\ pc' = "returned"
              /\ wrapper = "query"
              /\ ~options.useLeader
              /\ options.query.level = "none"]_vars

\* C37 witness: a query without a level has returned from the leader, the
\* first host, and left activeHostIndex at 1, where a level-'none' query
\* before it had moved it.
C37_Witness ==
    /\ pc = "returned"
    /\ wrapper = "query"
    /\ options.query.level = "undefined"
    /\ options.useLeader
    /\ url = HostUrl(0) \o PATH_QUERY
    /\ activeHostIndex = 1

\* the statements of each SQL input in their normalized form, [sql, ...values]
C38_Statements(sql) ==
    LET one == [t |-> "array", v |-> <<[t |-> "string", v |-> "SELECT 1"]>>]
        two == [t |-> "array", v |-> <<[t |-> "string", v |-> "SELECT 2"]>>]
        bound == [t |-> "array", v |-> <<[t |-> "string", v |-> "SELECT ?"],
                                         [t |-> "number", v |-> 1]>>]
    IN IF sql \in {JsString("SELECT 1"), SqlTag("SELECT 1", << >>),
                   JsArray(<<JsString("SELECT 1")>>)}
       THEN <<one>>
       ELSE IF sql = JsArray(<<JsString("SELECT 1"), JsString("SELECT 2")>>)
       THEN <<one, two>>
       ELSE <<bound>>

\* the SQL inputs that are statements
C38_Inputs == SqlInputs \ {JsArray(<<JsNumber(1), JsNumber(2)>>)}

\* the last n tokens of a url
C38_Tail(u, n) == SubSeq(u, Len(u) - n + 1, Len(u))

\* a step that calls query or execute sends the request C38 describes
C38_Step ==
    \A sql \in C38_Inputs, leader \in BOOLEAN :
        /\ \A level \in QueryLevels :
              query(sql, level, leader) =>
                  /\ pc' = "inflight"
                  /\ dispatches' = 1
                  /\ C38_Tail(url', Len(PATH_QUERY)) = PATH_QUERY
                  /\ sent'.params.level = level
                  /\ IF /\ Len(C38_Statements(sql)) = 1
                        /\ Len(C38_Statements(sql)[1].v) = 1
                     THEN /\ sent'.method = HTTP_METHOD_GET
                          /\ sent'.params.q = C38_Statements(sql)[1].v[1]
                     ELSE /\ sent'.method = HTTP_METHOD_POST
                          /\ sent'.data = [t |-> "array",
                                           v |-> C38_Statements(sql)]
        /\ execute(sql, leader) =>
              /\ pc' = "inflight"
              /\ dispatches' = 1
              /\ C38_Tail(url', Len(PATH_EXECUTE)) = PATH_EXECUTE
              /\ sent'.method = HTTP_METHOD_POST
              /\ sent'.data = [t |-> "array", v |-> C38_Statements(sql)]

\* C38: query sends one statement without parameters as one GET to
\* /db/query with the SQL in q and the level when given, and anything else
\* as one POST to /db/query with the normalized statements as body;
\* execute sends one POST to /db/execute with the normalized statements as
\* body.
C38_RequestShape == [][C38_Step]_vars

\* the same for the client built from the source
C38_SourceRequestShape == [][~bundled => C38_Step]_vars

\* C39: statusAllHosts sends one status request per configured host, the
\* i-th request to hosts[i], and pairs each response with the host that
\* produced it, whatever activeHostIndex and leaderHostIndex are.
C39_OneStatusPerHost ==
    applied.fn = "statusAllHosts" =>
        /\ Len(applied.value) = getTotalHosts
        /\ \A i \in 1 .. getTotalHosts :
              /\ applied.value[i].url = hosts[i] \o PATH_STATUS
              /\ applied.value[i].host \o PATH_STATUS = applied.value[i].url

\* statusAllHosts sends as many requests as there are hosts, all of them to
\* hosts[activeHostIndex]
C39_AllToActiveHost ==
    applied.fn = "statusAllHosts" =>
        /\ Len(applied.value) = getTotalHosts
        /\ \A i \in 1 .. getTotalHosts :
              applied.value[i].url = hosts[activeHostIndex + 1] \o PATH_STATUS

====
